---- MODULE Spec2Model ----
(***************************************************************************)
(* Lock-free SPSC byte ring buffer (ring_buffer.c) and the two ways its    *)
(* callers drive it: single-threaded call sequences (test_unit.c) and one  *)
(* producer thread against one consumer thread (test_integration.c).       *)
(*                                                                         *)
(* Spec         : ring_push / ring_pop as whole calls issued by one thread.*)
(* SpscSpec     : producer and consumer threads, interleaved at every      *)
(*                cursor load, byte copy and cursor store.                 *)
(* FairSpscSpec : SpscSpec with both threads scheduled fairly.             *)
(***************************************************************************)
EXTENDS Integers, Sequences, FiniteSets, TLC

(***************************************************************************)
(* Sizes.  BUFFER_SIZE is 1024 in the source; the model keeps it a power   *)
(* of two, 2^LogBufferSize.  size_t arithmetic wraps modulo 2^SizeBits.    *)
(***************************************************************************)
LogBufferSize == 3

SizeBits == 12

MaxPushed == 16

NumMessages == 4

RECURSIVE Pow2(_)
Pow2(n) ==
    IF n = 0 THEN 1 ELSE 2 * Pow2(n - 1)

BUFFER_SIZE == Pow2(LogBufferSize)

SIZE_MODULUS == Pow2(SizeBits)

\* The largest request length a caller issues: one more than BUFFER_SIZE.
MaxLen == BUFFER_SIZE + 1

Lengths == 0 .. MaxLen

Indices == 0 .. (BUFFER_SIZE - 1)

(***************************************************************************)
(* Machine arithmetic of ring_buffer.c.                                    *)
(***************************************************************************)
\* Mutant: a subtraction that stops at 0 instead of wrapping modulo 2^w.
SizeT_Saturate(x) ==
    IF x < 0 THEN 0 ELSE x % SIZE_MODULUS

\* Unsigned size_t result of an integer expression (wraps on underflow).
SizeT(x) ==
    x % SIZE_MODULUS

\* Bitwise AND of two naturals.
RECURSIVE BitAnd(_, _)
BitAnd(a, b) ==
    IF a = 0 \/ b = 0
    THEN 0
    ELSE (a % 2) * (b % 2) + 2 * BitAnd(a \div 2, b \div 2)

\* uint8_t cast.
Byte(x) ==
    BitAnd(x, 255)

\* v & (BUFFER_SIZE - 1) for every size_t value v, tabulated.
MaskTable ==
    [v \in 0 .. (SIZE_MODULUS - 1) |-> BitAnd(v, BUFFER_SIZE - 1)]

\* x & (BUFFER_SIZE - 1), x computed in size_t
Wrap(x) ==
    MaskTable[SizeT(x)]

\* Mutant: the mask forgotten, available = tail - head - 1.
PushAvailable_NoMask(h, t) ==
    SizeT(t - h - 1)

\* Mutant: the cursors swapped, available = (head - tail - 1) & mask.
PushAvailable_Swapped(h, t) ==
    Wrap(h - t - 1)

\* Mutant: the reserved slot forgotten, available = (tail - head) & mask.
PushAvailable_NoReserve(h, t) ==
    Wrap(t - h)

\* Mutant: two slots kept in reserve instead of one.
PushAvailable_TwoReserved(h, t) ==
    Wrap(t - h - 2)

\* ring_push line 21: available = (tail - head - 1) & (BUFFER_SIZE - 1)
PushAvailable(h, t) ==
    Wrap(t - h - 1)

\* Mutant: the newest byte held back from the consumer.
PopAvailable_HoldBack(h, t) ==
    IF Wrap(h - t) = 0 THEN 0 ELSE Wrap(h - t) - 1

\* ring_pop line 39: available = (head - tail) & (BUFFER_SIZE - 1)
PopAvailable(h, t) ==
    Wrap(h - t)

\* Mutant: the comparison of line 22 written >=.
PushFits_Strict(h, t, len) ==
    ~(len >= PushAvailable(h, t))

\* ring_push line 22: if (len > available) return false
PushFits(h, t, len) ==
    ~(len > PushAvailable(h, t))

\* Mutant: the comparison of line 40 written >=.
PopFits_Strict(h, t, len) ==
    ~(len >= PopAvailable(h, t))

\* Mutant: the comparison of line 40 off by one.
PopFits_OffByOne(h, t, len) ==
    ~(len > PopAvailable(h, t) + 1)

\* ring_pop line 40: if (len > available) return false
PopFits(h, t, len) ==
    ~(len > PopAvailable(h, t))

\* Mutant: the index reduced modulo BUFFER_SIZE - 1 instead of masked.
PushIndex_ModMask(h, i) ==
    SizeT(h + i) % (BUFFER_SIZE - 1)

\* ring_push line 26: the storage index of byte i of a push that loaded head h
PushIndex(h, i) ==
    Wrap(h + i)

\* Mutant: the read index one slot ahead.
PopIndex_OffByOne(t, i) ==
    Wrap(t + i + 1)

\* ring_pop line 44: the storage index of byte i of a pop that loaded tail t
PopIndex(t, i) ==
    Wrap(t + i)

\* Mutant: the new head rounded up to an even index.
PushNewHead_Aligned(h, len) ==
    Wrap(h + len + (len % 2))

\* Mutant: the new head stored without the mask.
PushNewHead_NoMask(h, len) ==
    SizeT(h + len)

\* ring_push lines 29-31: the head value stored by a successful push
PushNewHead(h, len) ==
    Wrap(h + len)

\* ring_pop lines 47-49: the tail value stored by a successful pop
PopNewTail(t, len) ==
    Wrap(t + len)

\* ring_push lines 25-27: the copy loop from byte i on, in index order
RECURSIVE PushCopy(_, _, _, _, _)
PushCopy(d, h, src, i, len) ==
    IF i < len
    THEN PushCopy([d EXCEPT ![PushIndex(h, i)] = src[i]], h, src, i + 1, len)
    ELSE d

\* ring_pop lines 43-45: the copy loop from byte i on, in index order
RECURSIVE PopCopy(_, _, _, _, _)
PopCopy(out, d, t, i, len) ==
    IF i < len
    THEN PopCopy([out EXCEPT ![i] = d[PopIndex(t, i)]], d, t, i + 1, len)
    ELSE out

(***************************************************************************)
(* State.                                                                  *)
(***************************************************************************)
VARIABLES
    data,       \* rb->data : storage, BUFFER_SIZE bytes
    head,       \* rb->head : write cursor, stored only by ring_push
    tail,       \* rb->tail : read cursor, stored only by ring_pop
    nPushed,    \* bytes accepted by successful pushes so far
    fifo,       \* the bytes pushed and not yet popped, oldest first
    dst,        \* the caller's destination buffer: zero-filled before each
                \* call, written by ring_pop
    lastOp,     \* the latest call of the single-threaded caller
    args,       \* thread_args_t of the two threads: mode, message sizes
    prod,       \* producer thread: position, locals of ring_push, counters
    cons,       \* consumer thread: position, locals of ring_pop, counters
    hist        \* messages of the successful pushes and pops, in order

rbVars == <<data, head, tail>>

seqVars == <<nPushed, fifo, dst, lastOp>>

spscVars == <<args, prod, cons, hist>>

vars == <<data, head, tail, nPushed, fifo, dst, lastOp, args, prod, cons, hist>>

\* init_buffer: memset(rb, 0, sizeof(*rb)); head = 0; tail = 0
ZeroData ==
    [k \in Indices |-> 0]

\* A caller's zero-filled destination buffer (uint8_t out[..] = {0}).
ZeroDst ==
    [j \in 0 .. (MaxLen - 1) |-> 0]

\* The caller's source bytes: byte k of the pushed stream is (k + 1) & 0xFF,
\* so that consecutive bytes differ, as in the patterns of the tests.
StreamByte(k) ==
    Byte(k + 1)

SrcBytes(k, len) ==
    [j \in 0 .. (len - 1) |-> StreamByte(k + j)]

(***************************************************************************)
(* ring_push and ring_pop as whole calls (no other thread runs meanwhile). *)
(***************************************************************************)
\* Mutant: the copy loop placed before the free-space check.
ring_push_CopyFirst(d, h, t, src, len) ==
    IF ~PushFits(h, t, len)
    THEN [ret |-> FALSE, data |-> PushCopy(d, h, src, 0, len), head |-> h]
    ELSE [ret |-> TRUE, data |-> PushCopy(d, h, src, 0, len),
          head |-> PushNewHead(h, len)]

\* Mutant: a push that does not fit writes the bytes that do and fails.
ring_push_Partial(d, h, t, src, len) ==
    IF ~PushFits(h, t, len)
    THEN [ret |-> FALSE, data |-> PushCopy(d, h, src, 0, PushAvailable(h, t)),
          head |-> PushNewHead(h, PushAvailable(h, t))]
    ELSE [ret |-> TRUE, data |-> PushCopy(d, h, src, 0, len),
          head |-> PushNewHead(h, len)]

ring_push(d, h, t, src, len) ==
    IF ~PushFits(h, t, len)
    THEN [ret |-> FALSE, data |-> d, head |-> h]
    ELSE [ret |-> TRUE, data |-> PushCopy(d, h, src, 0, len),
          head |-> PushNewHead(h, len)]

\* Mutant: the copy loop placed before the occupancy check.
ring_pop_CopyFirst(d, h, t, out, len) ==
    IF ~PopFits(h, t, len)
    THEN [ret |-> FALSE, dst |-> PopCopy(out, d, t, 0, len), tail |-> t]
    ELSE [ret |-> TRUE, dst |-> PopCopy(out, d, t, 0, len),
          tail |-> PopNewTail(t, len)]

ring_pop(d, h, t, out, len) ==
    IF ~PopFits(h, t, len)
    THEN [ret |-> FALSE, dst |-> out, tail |-> t]
    ELSE [ret |-> TRUE, dst |-> PopCopy(out, d, t, 0, len),
          tail |-> PopNewTail(t, len)]

(***************************************************************************)
(* The threads of test_integration.c.                                      *)
(***************************************************************************)
\* A byte of a malloc'ed or automatic buffer that was never written.
Uninit == -1

UninitBuf ==
    [j \in 0 .. (MaxLen - 1) |-> Uninit]

\* producer_variable_size line 204: size = (msg_id % 61) + 4, 4 .. 64 bytes
\* with BUFFER_SIZE 1024; here the sizes span 4 .. BUFFER_SIZE - 1.
VAR_MIN_SIZE == 4

VariableSize(msg_id) ==
    (msg_id % (BUFFER_SIZE - VAR_MIN_SIZE)) + VAR_MIN_SIZE

\* producer_fixed_size lines 58-60: data[j] = (i + j) & 0xFF
FixedData(i, size) ==
    [j \in 0 .. (size - 1) |-> Byte(i + j)]

\* producer_variable_size lines 206-212
VariableData(msg_id, size) ==
    [j \in 0 .. (size - 1) |->
        CASE j = 0 -> Byte(msg_id)
          [] j = 1 -> Byte(msg_id \div 256)
          [] j = 2 -> Byte(size)
          [] OTHER -> Byte(msg_id + j)]

\* The size and the bytes of message number i as the producer builds it.
ProducerSize(i) ==
    IF args.mode = "fixed" THEN args.psize ELSE VariableSize(i)

ProducerData(i) ==
    IF args.mode = "fixed"
    THEN FixedData(i, ProducerSize(i))
    ELSE VariableData(i, ProducerSize(i))

\* The size the consumer asks for as message number i.
ConsumerSize(i) ==
    IF args.mode = "fixed" THEN args.csize ELSE VariableSize(i)

\* consumer_fixed_size lines 84-91 and consumer_variable_size lines 234-244:
\* whether the popped bytes pass the consumer's own check of message i.
ConsumerAccepts(out, i) ==
    IF args.mode = "fixed"
    THEN \A j \in 0 .. (args.csize - 1) : out[j] = Byte(i + j)
    ELSE /\ out[0] + 256 * out[1] = i
         /\ out[2] = Byte(VariableSize(i))

IdleThread ==
    [pc |-> "idle", msg |-> 0, len |-> 0, head |-> 0, tail |-> 0, i |-> 0,
     buf |-> UninitBuf, count |-> 0, steps |-> 0]

NoArgs ==
    [mode |-> "unit", psize |-> 0, csize |-> 0]

NoHist ==
    [sent |-> << >>, received |-> << >>]

(***************************************************************************)
(* Single-threaded caller (test_unit.c): any sequence of pushes and pops   *)
(* of any length 0 .. BUFFER_SIZE + 1.                                     *)
(***************************************************************************)
Init ==
    /\ data = ZeroData
    /\ head = 0
    /\ tail = 0
    /\ nPushed = 0
    /\ fifo = << >>
    /\ dst = ZeroDst
    /\ lastOp = [kind |-> "init", len |-> 0, ret |-> TRUE, after |-> "none"]
    /\ args = NoArgs
    /\ prod = IdleThread
    /\ cons = IdleThread
    /\ hist = NoHist

\* What the call before this one was, when it failed ("none" otherwise).
FailedKind ==
    IF lastOp.ret THEN "none" ELSE lastOp.kind

Push(len) ==
    /\ nPushed < MaxPushed
    /\ \E r \in {ring_push(data, head, tail, SrcBytes(nPushed, len), len)} :
       LET src == SrcBytes(nPushed, len)
       IN  /\ data' = r.data
           /\ head' = r.head
           /\ tail' = tail
           /\ nPushed' = IF r.ret THEN nPushed + len ELSE nPushed
           /\ fifo' = IF r.ret
                      THEN fifo \o [j \in 1 .. len |-> src[j - 1]]
                      ELSE fifo
           /\ dst' = ZeroDst
           /\ lastOp' = [kind |-> "push", len |-> len, ret |-> r.ret,
                        after |-> FailedKind]
           /\ UNCHANGED spscVars

Pop(len) ==
    /\ \E r \in {ring_pop(data, head, tail, ZeroDst, len)} :
           /\ dst' = r.dst
           /\ tail' = r.tail
           /\ data' = data
           /\ head' = head
           /\ nPushed' = nPushed
           /\ fifo' = IF r.ret THEN SubSeq(fifo, len + 1, Len(fifo)) ELSE fifo
           /\ lastOp' = [kind |-> "pop", len |-> len, ret |-> r.ret,
                        after |-> FailedKind]
           /\ UNCHANGED spscVars

Next ==
    \/ \E len \in Lengths : Push(len)
    \/ \E len \in Lengths : Pop(len)

Spec ==
    Init /\ [][Next]_vars

TypeOK ==
    /\ data \in [Indices -> 0 .. 255]
    /\ head \in Indices
    /\ tail \in Indices

(***************************************************************************)
(* Properties of single-threaded call sequences (checked under Spec).      *)
(* A step is recognised by lastOp', the call it performs; unprimed         *)
(* variables are the state the call starts from.                           *)
(***************************************************************************)
\* The number of bytes pushed and not yet popped, and the room left.
Occupied ==
    Len(fifo)

Free ==
    BUFFER_SIZE - 1 - Len(fifo)

\* The first len bytes of a destination buffer, as a sequence.
Taken(out, len) ==
    [j \in 1 .. len |-> out[j - 1]]

\* C1: in every call sequence from the initialized buffer, a push of at most
\* the free bytes succeeds, a pop of at most the occupied bytes succeeds, and
\* each pop returns the oldest unpopped bytes of the pushed stream, in order
\* (so the popped bytes, concatenated, are a prefix of the pushed bytes),
\* however often the cursors have wrapped.
C1_FifoOrder ==
    [][/\ (lastOp'.kind = "push" /\ lastOp'.len <= Free) => lastOp'.ret
       /\ (lastOp'.kind = "pop" /\ lastOp'.len <= Occupied) =>
             /\ lastOp'.ret
             /\ Taken(dst', lastOp'.len) = SubSeq(fifo, 1, lastOp'.len)
             /\ fifo = [j \in 1 .. Occupied |->
                           StreamByte(nPushed - Occupied + j - 1)]]_vars

\* C1 witness: a pop that read across index BUFFER_SIZE-1 -> 0 after the
\* cursors went round the storage more than twice.
C1_Witness ==
    /\ lastOp.kind = "pop" /\ lastOp.ret /\ lastOp.len >= 2
    /\ 0 < tail /\ tail < lastOp.len
    /\ nPushed - Occupied > 2 * BUFFER_SIZE
    /\ Taken(dst, lastOp.len) =
          [j \in 1 .. lastOp.len |->
              StreamByte(nPushed - Occupied - lastOp.len + j - 1)]

\* C4: a push longer than the free bytes it computes returns false and
\* writes no storage byte and neither cursor.
C4_FailedPushNoOp ==
    [][(lastOp'.kind = "push" /\ lastOp'.len > PushAvailable(head, tail)) =>
          /\ ~lastOp'.ret
          /\ data' = data
          /\ head' = head
          /\ tail' = tail]_vars

\* C4 witness: a push that would fit an empty buffer just failed on a
\* partly filled one.
C4_Witness ==
    /\ lastOp.kind = "push" /\ ~lastOp.ret
    /\ lastOp.len <= BUFFER_SIZE - 1
    /\ Occupied > 0 /\ Free > 0

\* C5: a pop longer than the occupied bytes returns false and leaves both
\* cursors, the storage and the destination buffer as they were; the pop of
\* exactly the available bytes that follows it succeeds and returns those
\* bytes as pushed.
C5_FailedPopNoOp ==
    [][/\ (lastOp'.kind = "pop" /\ lastOp'.len > Occupied) =>
             /\ ~lastOp'.ret
             /\ tail' = tail
             /\ head' = head
             /\ data' = data
             /\ fifo' = fifo
             /\ dst' = ZeroDst
       /\ (lastOp'.kind = "pop" /\ lastOp'.after = "pop"
              /\ lastOp'.len = PopAvailable(head, tail)) =>
             /\ lastOp'.ret
             /\ Taken(dst', lastOp'.len) = fifo
             /\ head' = tail']_vars

\* C5 witness: after an oversized pop failed on a buffer holding data, the
\* pop of the available bytes succeeded and emptied it.
C5_Witness ==
    /\ lastOp.kind = "pop" /\ lastOp.ret /\ lastOp.after = "pop"
    /\ lastOp.len >= 2
    /\ head = tail
    /\ Taken(dst, lastOp.len) =
          [j \in 1 .. lastOp.len |-> StreamByte(nPushed - lastOp.len + j - 1)]

\* C6: on an empty buffer (head = tail at any index) a push of
\* BUFFER_SIZE-1 bytes succeeds; a push of BUFFER_SIZE bytes fails; and while
\* BUFFER_SIZE-1 bytes are held every push of 1 byte or more fails and the
\* buffer stays full.
C6_Capacity ==
    [][lastOp'.kind = "push" =>
          /\ (head = tail /\ lastOp'.len = BUFFER_SIZE - 1) => lastOp'.ret
          /\ (head = tail /\ lastOp'.len = BUFFER_SIZE) => ~lastOp'.ret
          /\ (Occupied = BUFFER_SIZE - 1 /\ lastOp'.len >= 1) =>
                (~lastOp'.ret /\ Len(fifo') = BUFFER_SIZE - 1)]_vars

\* C6 witness: a buffer filled by one push of BUFFER_SIZE-1 bytes from an
\* empty state at a non-zero index has just refused a 1-byte push.
C6_Witness ==
    /\ lastOp.kind = "push" /\ ~lastOp.ret /\ lastOp.len = 1
    /\ Occupied = BUFFER_SIZE - 1
    /\ tail # 0
    /\ head = Wrap(tail + BUFFER_SIZE - 1)

\* C8: on an empty buffer (head = tail, at index 0 or any other) a pop of
\* 1 byte or more fails and a pop of 0 bytes succeeds and changes nothing.
C8_EmptyPop ==
    [][(lastOp'.kind = "pop" /\ head = tail) =>
          /\ lastOp'.len >= 1 => ~lastOp'.ret
          /\ lastOp'.len = 0 => lastOp'.ret
          /\ tail' = tail /\ head' = head /\ data' = data
          /\ dst' = ZeroDst]_vars

\* C8 witness: a pop failed on a buffer drained at a non-zero index.
C8_Witness ==
    /\ lastOp.kind = "pop" /\ ~lastOp.ret /\ lastOp.len = 1
    /\ head = tail /\ head # 0
    /\ nPushed > 0

\* C9: in every state a push of 0 bytes and a pop of 0 bytes return success
\* and leave both cursors and the storage as they were.
C9_ZeroLength ==
    [][(lastOp'.kind \in {"push", "pop"} /\ lastOp'.len = 0) =>
          /\ lastOp'.ret
          /\ head' = head
          /\ tail' = tail
          /\ data' = data]_vars

\* C9 witness: a zero-length push succeeded on a full buffer.
C9_Witness ==
    /\ lastOp.kind = "push" /\ lastOp.ret /\ lastOp.len = 0
    /\ Occupied = BUFFER_SIZE - 1

\* The bytes a push of src followed by a pop of the same length returns,
\* started on an empty buffer with both cursors at p and storage d.
RoundTrip(d, p, src, len) ==
    LET a == ring_push(d, p, p, src, len)
        b == ring_pop(a.data, a.head, p, ZeroDst, len)
    IN  [ok |-> a.ret /\ b.ret, out |-> b.dst, empty |-> (a.head = b.tail)]

\* C10: from every reachable empty state, with the cursors at p and whatever
\* older bytes the storage holds, a push of L <= BUFFER_SIZE-1 bytes with
\* p + L >= BUFFER_SIZE followed by a pop of L bytes succeeds and returns
\* what the same push and pop return on a fresh buffer at position 0.
C10_WrapRoundTrip ==
    head = tail =>
        \A L \in 1 .. (BUFFER_SIZE - 1) :
            head + L >= BUFFER_SIZE =>
                LET src == SrcBytes(nPushed, L)
                    here == RoundTrip(data, head, src, L)
                    zero == RoundTrip(ZeroData, 0, src, L)
                IN  /\ here.ok /\ zero.ok
                    /\ here = zero
                    /\ Taken(here.out, L) = [j \in 1 .. L |-> src[j - 1]]

\* C10 witness: a push on an empty buffer at a non-zero index and the pop of
\* the same length have both run, crossing index BUFFER_SIZE-1 -> 0, and the
\* pop returned the pushed bytes.
C10_Witness ==
    /\ lastOp.kind = "pop" /\ lastOp.ret /\ lastOp.len >= 2
    /\ head = tail
    /\ 0 < tail /\ tail < lastOp.len
    /\ nPushed > BUFFER_SIZE
    /\ Taken(dst, lastOp.len) =
          [j \in 1 .. lastOp.len |-> StreamByte(nPushed - lastOp.len + j - 1)]

\* The bytes the buffer holds, oldest first, read off storage d between
\* read cursor t and write cursor h.
Held(d, h, t) == [j \in 1 .. PopAvailable(h, t) |-> d[PopIndex(t, j - 1)]]

\* C14: a failed push of L <= BUFFER_SIZE-1 bytes leaves storage and both
\* cursors as they were before the call, so what follows sees the state it
\* would have seen had the call never been made; and once a pop has raised
\* the free bytes to L (the least progress that is enough), the same push
\* succeeds and the buffer then holds the bytes not popped followed by the
\* pushed ones.  The same for a failed pop of L bytes once a push has
\* supplied the missing bytes.
C14_Retryable ==
    [][/\ (lastOp'.kind = "push" /\ ~lastOp'.ret
              /\ lastOp'.len <= BUFFER_SIZE - 1) =>
             /\ <<data', head', tail', nPushed', fifo'>> =
                   <<data, head, tail, nPushed, fifo>>
             /\ \E k \in {lastOp'.len - Free} :
                  \E L \in {lastOp'.len} :
                  \E src \in {SrcBytes(nPushed, L)} :
                  \E pop \in {ring_pop(data', head', tail', ZeroDst, k)} :
                  \E push \in {ring_push(data', head', pop.tail, src, L)} :
                     /\ pop.ret /\ push.ret
                     /\ Held(push.data, push.head, pop.tail) =
                           SubSeq(fifo, k + 1, Occupied)
                              \o [j \in 1 .. L |-> src[j - 1]]
       /\ (lastOp'.kind = "pop" /\ ~lastOp'.ret
              /\ lastOp'.len <= BUFFER_SIZE - 1) =>
             /\ <<data', head', tail', nPushed', fifo'>> =
                   <<data, head, tail, nPushed, fifo>>
             /\ \E k \in {lastOp'.len - Occupied} :
                  \E L \in {lastOp'.len} :
                  \E src \in {SrcBytes(nPushed, k)} :
                  \E push \in {ring_push(data', head', tail', src, k)} :
                  \E pop \in {ring_pop(push.data, push.head, tail',
                                       ZeroDst, L)} :
                     /\ push.ret /\ pop.ret
                     /\ Taken(pop.dst, L) =
                           SubSeq(fifo \o [j \in 1 .. k |-> src[j - 1]], 1, L)]_vars

\* C14 witness: a push that fits the buffer as a whole has failed on a
\* partly filled buffer, at a position where its retry will cross index
\* BUFFER_SIZE-1 -> 0, right after the pop that made some room.
C14_Witness ==
    /\ lastOp.kind = "push" /\ ~lastOp.ret
    /\ 2 <= lastOp.len /\ lastOp.len <= BUFFER_SIZE - 1
    /\ Occupied >= 2 /\ Free >= 1
    /\ head + lastOp.len > BUFFER_SIZE
    /\ tail > 0

(***************************************************************************)
(* One producer thread and one consumer thread (test_integration.c).       *)
(* Each step is one cursor load, one free-space or occupancy check, one    *)
(* byte copy or one cursor store; the steps of the two threads interleave  *)
(* freely.  A failed call is retried (sched_yield, then the call again).   *)
(***************************************************************************)
SpscInit ==
    /\ data = ZeroData
    /\ head = 0
    /\ tail = 0
    /\ nPushed = 0
    /\ fifo = << >>
    /\ dst = ZeroDst
    /\ lastOp = [kind |-> "init", len |-> 0, ret |-> TRUE, after |-> "none"]
    /\ args \in [mode : {"fixed"}, psize : 1 .. MaxLen, csize : 1 .. MaxLen]
                  \cup {[mode |-> "variable", psize |-> 0, csize |-> 0]}
    /\ prod = [IdleThread EXCEPT !.pc = "next"]
    /\ cons = [IdleThread EXCEPT !.pc = "next"]
    /\ hist = NoHist

\* producer_fixed_size lines 56-60, producer_variable_size lines 202-212:
\* the loop test, and the message built in the local buffer.
P_Next ==
    /\ prod.pc = "next"
    /\ prod' = IF prod.msg < NumMessages
               THEN [prod EXCEPT !.pc = "load_head",
                                 !.len = ProducerSize(prod.msg),
                                 !.buf = ProducerData(prod.msg),
                                 !.steps = 0]
               ELSE [prod EXCEPT !.pc = "done"]
    /\ UNCHANGED <<data, head, tail, seqVars, args, cons, hist>>

\* Mutant: the producer's own head not loaded again, the value loaded by
\* its previous call reused.
P_LoadHead_Cached ==
    /\ prod.pc = "load_head"
    /\ prod' = [prod EXCEPT !.pc = "load_tail", !.steps = 1]
    /\ UNCHANGED <<data, head, tail, seqVars, args, cons, hist>>

\* ring_push line 18: head = load(rb->head, relaxed)
P_LoadHead ==
    /\ prod.pc = "load_head"
    /\ prod' = [prod EXCEPT !.pc = "load_tail", !.head = head, !.steps = 1]
    /\ UNCHANGED <<data, head, tail, seqVars, args, cons, hist>>

\* Mutant: tail not loaded again, the value of the previous call reused.
P_LoadTail_Cached ==
    /\ prod.pc = "load_tail"
    /\ prod' = [prod EXCEPT !.pc = "check", !.steps = prod.steps + 1]
    /\ UNCHANGED <<data, head, tail, seqVars, args, cons, hist>>

\* ring_push line 19: tail = load(rb->tail, acquire)
P_LoadTail ==
    /\ prod.pc = "load_tail"
    /\ prod' = [prod EXCEPT !.pc = "check", !.tail = tail,
                            !.steps = prod.steps + 1]
    /\ UNCHANGED <<data, head, tail, seqVars, args, cons, hist>>

\* Mutant: a push that does not fit waits inside the call, loading tail
\* again until the consumer has made room.
P_Check_Wait ==
    /\ prod.pc = "check"
    /\ prod' = IF ~PushFits(prod.head, prod.tail, prod.len)
               THEN [prod EXCEPT !.steps = prod.steps + 1, !.pc = "load_tail"]
               ELSE [prod EXCEPT !.i = 0, !.steps = prod.steps + 1,
                                 !.pc = IF 0 < prod.len THEN "copy" ELSE "store"]
    /\ UNCHANGED <<data, head, tail, seqVars, args, cons, hist>>

\* Mutant: head published at the check, before the bytes are copied.
P_Check_PublishEarly ==
    /\ prod.pc = "check"
    /\ IF ~PushFits(prod.head, prod.tail, prod.len)
       THEN /\ prod' = [prod EXCEPT !.steps = prod.steps + 1,
                                   !.pc = IF args.mode = "fixed"
                                          THEN "load_head" ELSE "next"]
            /\ head' = head
       ELSE /\ prod' = [prod EXCEPT !.i = 0, !.steps = prod.steps + 1,
                                   !.pc = IF 0 < prod.len THEN "copy" ELSE "store"]
            /\ head' = PushNewHead(prod.head, prod.len)
    /\ UNCHANGED <<data, tail, seqVars, args, cons, hist>>

\* ring_push lines 21-22 and the loop head of line 25.  On failure the
\* caller yields and calls again: producer_fixed_size with the same buffer
\* (lines 63-65), producer_variable_size from its loop head (lines 217-219).
P_Check ==
    /\ prod.pc = "check"
    /\ prod' = IF ~PushFits(prod.head, prod.tail, prod.len)
               THEN [prod EXCEPT !.steps = prod.steps + 1,
                                 !.pc = IF args.mode = "fixed"
                                        THEN "load_head" ELSE "next"]
               ELSE [prod EXCEPT !.i = 0, !.steps = prod.steps + 1,
                                 !.pc = IF 0 < prod.len THEN "copy" ELSE "store"]
    /\ UNCHANGED <<data, head, tail, seqVars, args, cons, hist>>

\* Mutant: head advanced after every byte instead of once after the loop.
P_Copy_PublishEachByte ==
    /\ prod.pc = "copy"
    /\ data' = [data EXCEPT ![PushIndex(prod.head, prod.i)] = prod.buf[prod.i]]
    /\ head' = PushIndex(prod.head, prod.i + 1)
    /\ prod' = [prod EXCEPT !.i = prod.i + 1, !.steps = prod.steps + 1,
                            !.pc = IF prod.i + 1 < prod.len THEN "copy" ELSE "store"]
    /\ UNCHANGED <<tail, seqVars, args, cons, hist>>

\* ring_push lines 25-27: one pass of the copy loop
P_Copy ==
    /\ prod.pc = "copy"
    /\ data' = [data EXCEPT ![PushIndex(prod.head, prod.i)] = prod.buf[prod.i]]
    /\ prod' = [prod EXCEPT !.i = prod.i + 1, !.steps = prod.steps + 1,
                            !.pc = IF prod.i + 1 < prod.len THEN "copy" ELSE "store"]
    /\ UNCHANGED <<head, tail, seqVars, args, cons, hist>>

\* ring_push lines 29-32: the release store of head and return true; then
\* the caller counts the message (lines 66, 215-216).
P_Store ==
    /\ prod.pc = "store"
    /\ head' = PushNewHead(prod.head, prod.len)
    /\ prod' = [prod EXCEPT !.pc = "next", !.msg = prod.msg + 1,
                            !.count = prod.count + 1,
                            !.steps = prod.steps + 1]
    /\ hist' = [hist EXCEPT !.sent = Append(hist.sent, Taken(prod.buf, prod.len))]
    /\ UNCHANGED <<data, tail, seqVars, args, cons>>

\* consumer_fixed_size line 77, consumer_variable_size lines 230-231
C_Next ==
    /\ cons.pc = "next"
    /\ cons' = IF cons.msg < NumMessages
               THEN [cons EXCEPT !.pc = "load_tail",
                                 !.len = ConsumerSize(cons.msg),
                                 !.steps = 0]
               ELSE [cons EXCEPT !.pc = "done"]
    /\ UNCHANGED <<data, head, tail, seqVars, args, prod, hist>>

\* ring_pop line 36: tail = load(rb->tail, relaxed)
C_LoadTail ==
    /\ cons.pc = "load_tail"
    /\ cons' = [cons EXCEPT !.pc = "load_head", !.tail = tail, !.steps = 1]
    /\ UNCHANGED <<data, head, tail, seqVars, args, prod, hist>>

\* ring_pop line 37: head = load(rb->head, acquire)
C_LoadHead ==
    /\ cons.pc = "load_head"
    /\ cons' = [cons EXCEPT !.pc = "check", !.head = head,
                            !.steps = cons.steps + 1]
    /\ UNCHANGED <<data, head, tail, seqVars, args, prod, hist>>

\* Mutant: tail released at the check, before the bytes are copied out.
C_Check_ReleaseEarly ==
    /\ cons.pc = "check"
    /\ IF ~PopFits(cons.head, cons.tail, cons.len)
       THEN /\ cons' = [cons EXCEPT !.steps = cons.steps + 1,
                                   !.pc = IF args.mode = "fixed"
                                          THEN "load_tail" ELSE "next"]
            /\ tail' = tail
       ELSE /\ cons' = [cons EXCEPT !.i = 0, !.steps = cons.steps + 1,
                                   !.pc = IF 0 < cons.len THEN "copy" ELSE "store"]
            /\ tail' = PopNewTail(cons.tail, cons.len)
    /\ UNCHANGED <<data, head, seqVars, args, prod, hist>>

\* ring_pop lines 39-40 and the loop head of line 43.  On failure the caller
\* yields and calls again (lines 79-81, 248-250).
C_Check ==
    /\ cons.pc = "check"
    /\ cons' = IF ~PopFits(cons.head, cons.tail, cons.len)
               THEN [cons EXCEPT !.steps = cons.steps + 1,
                                 !.pc = IF args.mode = "fixed"
                                        THEN "load_tail" ELSE "next"]
               ELSE [cons EXCEPT !.i = 0, !.steps = cons.steps + 1,
                                 !.pc = IF 0 < cons.len THEN "copy" ELSE "store"]
    /\ UNCHANGED <<data, head, tail, seqVars, args, prod, hist>>

\* Mutant: a pop that clears each slot once it has read it.
C_Copy_ClearSlot ==
    /\ cons.pc = "copy"
    /\ cons' = [cons EXCEPT !.buf[cons.i] = data[PopIndex(cons.tail, cons.i)],
                            !.i = cons.i + 1, !.steps = cons.steps + 1,
                            !.pc = IF cons.i + 1 < cons.len THEN "copy" ELSE "store"]
    /\ data' = [data EXCEPT ![PopIndex(cons.tail, cons.i)] = 0]
    /\ UNCHANGED <<head, tail, seqVars, args, prod, hist>>

\* ring_pop lines 43-45: one pass of the copy loop
C_Copy ==
    /\ cons.pc = "copy"
    /\ cons' = [cons EXCEPT !.buf[cons.i] = data[PopIndex(cons.tail, cons.i)],
                            !.i = cons.i + 1, !.steps = cons.steps + 1,
                            !.pc = IF cons.i + 1 < cons.len THEN "copy" ELSE "store"]
    /\ UNCHANGED <<data, head, tail, seqVars, args, prod, hist>>

\* ring_pop lines 47-50: the release store of tail and return true
C_Store ==
    /\ cons.pc = "store"
    /\ tail' = PopNewTail(cons.tail, cons.len)
    /\ cons' = [cons EXCEPT !.pc = "verify", !.steps = cons.steps + 1]
    /\ hist' = [hist EXCEPT !.received =
                                Append(hist.received, Taken(cons.buf, cons.len))]
    /\ UNCHANGED <<data, head, seqVars, args, prod>>

\* consumer_fixed_size lines 84-92, consumer_variable_size lines 234-247:
\* the consumer's check of what it popped; a mismatch ends the thread with
\* result 1, a match counts the message.
C_Verify ==
    /\ cons.pc = "verify"
    /\ cons' = IF ConsumerAccepts(cons.buf, cons.msg)
               THEN [cons EXCEPT !.pc = "next", !.msg = cons.msg + 1,
                                 !.count = cons.count + 1]
               ELSE [cons EXCEPT !.pc = "failed"]
    /\ UNCHANGED <<data, head, tail, seqVars, args, prod, hist>>

ProducerStep ==
    \/ P_Next
    \/ P_LoadHead
    \/ P_LoadTail
    \/ P_Check
    \/ P_Copy
    \/ P_Store

ConsumerStep ==
    \/ C_Next
    \/ C_LoadTail
    \/ C_LoadHead
    \/ C_Check
    \/ C_Copy
    \/ C_Store
    \/ C_Verify

SpscNext ==
    \/ ProducerStep
    \/ ConsumerStep

SpscSpec ==
    SpscInit /\ [][SpscNext]_vars

\* Both threads keep running while they have a step to take: each is a
\* thread of its own, and a failed call only yields (sched_yield).
FairSpscSpec ==
    SpscSpec /\ WF_vars(ProducerStep) /\ WF_vars(ConsumerStep)

(***************************************************************************)
(* Properties of the two-thread runs.                                      *)
(***************************************************************************)
\* Producer and consumer agree on the message sizes.
SizesAgree ==
    args.mode = "variable" \/ args.psize = args.csize

\* The bytes of message number i (from 0) as the producer builds it.
Message(i) ==
    Taken(ProducerData(i), ProducerSize(i))

\* C2: with one producer and one consumer interleaved at every cursor load,
\* byte copy and cursor store, both retrying failed calls and agreeing on the
\* sizes (fixed or variable), the k-th successful pop returns exactly the
\* bytes of the k-th successful push, which are those of the k-th message:
\* same content, same order, no gap, no duplicate.
C2_SpscOrder ==
    SizesAgree =>
        /\ Len(hist.received) <= Len(hist.sent)
        /\ \A k \in 1 .. Len(hist.sent) : hist.sent[k] = Message(k - 1)
        /\ \A k \in 1 .. Len(hist.received) : hist.received[k] = hist.sent[k]
        /\ cons.pc # "failed"

\* C2 witness: the consumer copies out a message it has been handed while
\* the producer copies in a later one across index BUFFER_SIZE-1 -> 0.
C2_Witness ==
    /\ SizesAgree
    /\ Len(hist.received) >= 1
    /\ prod.pc = "copy" /\ cons.pc = "copy"
    /\ prod.head + prod.len > BUFFER_SIZE
    /\ prod.i > 0 /\ cons.i > 0

\* The fixed-size runs C3 is about: the same size s on both sides, 1 <= s <=
\* BUFFER_SIZE - 1.
FixedFitting ==
    /\ args.mode = "fixed"
    /\ args.psize = args.csize
    /\ args.psize <= BUFFER_SIZE - 1

BothFinished ==
    /\ prod.pc = "done"
    /\ cons.pc = "done"
    /\ prod.count = NumMessages
    /\ cons.count = NumMessages
    /\ Len(hist.sent) = NumMessages
    /\ Len(hist.received) = NumMessages
    /\ head = tail

\* C3: under fair scheduling of both threads, a producer of NumMessages
\* pushes of size s and a consumer of NumMessages pops of size s, both
\* retrying, both finish, for every s in 1 .. BUFFER_SIZE-1; whenever both
\* have finished, NumMessages messages were produced and consumed and the
\* buffer is empty.
C3_BothFinish ==
    /\ FixedFitting ~> BothFinished
    /\ [](FixedFitting /\ prod.pc = "done" /\ cons.pc \in {"done", "failed"}
             => BothFinished)

\* C3 witness: a run with messages larger than half the buffer has finished.
C3_Witness ==
    /\ FixedFitting
    /\ 2 * args.psize > BUFFER_SIZE
    /\ BothFinished

\* The positions of a thread that has not passed the check of its first call.
BeforeFirstSuccess ==
    {"next", "load_head", "load_tail", "check"}

\* C7: a push or a pop longer than BUFFER_SIZE-1 fails its check in every
\* reachable state, so a thread that retries it never gets past its first
\* message and never finishes, whatever the other thread does.
C7_OversizedNeverSucceeds ==
    /\ (args.mode = "fixed" /\ args.psize > BUFFER_SIZE - 1) =>
          /\ prod.pc \in BeforeFirstSuccess
          /\ prod.count = 0 /\ hist.sent = << >>
          /\ prod.pc = "check" => ~PushFits(prod.head, prod.tail, prod.len)
    /\ (args.mode = "fixed" /\ args.csize > BUFFER_SIZE - 1) =>
          /\ cons.pc \in BeforeFirstSuccess
          /\ cons.count = 0 /\ hist.received = << >>
          /\ cons.pc = "check" => ~PopFits(cons.head, cons.tail, cons.len)

\* C7 witness: an oversized pop has failed against a buffer the producer
\* filled to BUFFER_SIZE-1 bytes, and the consumer is calling again.
C7_Witness ==
    /\ args.mode = "fixed" /\ args.csize > BUFFER_SIZE - 1
    /\ PopAvailable(head, tail) = BUFFER_SIZE - 1
    /\ cons.pc = "load_tail"
    /\ cons.head = head

\* The bytes of a sequence of messages, concatenated, and their number.
RECURSIVE Flatten(_)
Flatten(msgs) ==
    IF msgs = << >> THEN << >> ELSE Head(msgs) \o Flatten(Tail(msgs))

RECURSIVE FlatLen(_)
FlatLen(msgs) ==
    IF msgs = << >> THEN 0 ELSE Len(Head(msgs)) + FlatLen(Tail(msgs))

\* C11: head changes only in the one store that ends a successful push, by
\* exactly the length of the push modulo BUFFER_SIZE and with all its bytes
\* already in storage; tail changes only in the one store that ends a
\* successful pop, by exactly its length and with all its bytes already
\* copied out; a failed check changes neither; so each cursor only ever
\* shows a boundary between whole requests.
C11_NoPartial ==
    [][/\ head' # head =>
             /\ prod.pc = "store" /\ prod'.pc = "next"
             /\ head' = (head + prod.len) % BUFFER_SIZE
             /\ \A j \in 0 .. (prod.len - 1) :
                    data[(head + j) % BUFFER_SIZE] = prod.buf[j]
             /\ Len(hist'.sent) = Len(hist.sent) + 1
       /\ tail' # tail =>
             /\ cons.pc = "store" /\ cons'.pc = "verify"
             /\ tail' = (tail + cons.len) % BUFFER_SIZE
             /\ \A j \in 0 .. (cons.len - 1) :
                    cons.buf[j] = data[(tail + j) % BUFFER_SIZE]
             /\ Len(hist'.received) = Len(hist.received) + 1
       /\ (prod.pc = "check" /\ prod'.pc \in {"load_head", "next"}) =>
             (head' = head /\ tail' = tail /\ data' = data)
       /\ (cons.pc = "check" /\ cons'.pc \in {"load_tail", "next"}) =>
             (head' = head /\ tail' = tail /\ cons'.buf = cons.buf)
       /\ head' = FlatLen(hist'.sent) % BUFFER_SIZE
       /\ tail' = FlatLen(hist'.received) % BUFFER_SIZE]_vars

\* C11 witness: a push that crossed index BUFFER_SIZE-1 -> 0 has just stored
\* head while the consumer is in the middle of copying an earlier message.
C11_Witness ==
    /\ prod.pc = "next" /\ prod.count >= 2
    /\ head < prod.head
    /\ head = Wrap(prod.head + prod.len)
    /\ cons.pc = "copy" /\ cons.i > 0

\* The bytes of the successful pushes that no completed pop has taken yet,
\* oldest first: the pushed stream without the bytes the stored pops took.
Unconsumed ==
    LET all == Flatten(hist.sent)
    IN  SubSeq(all, FlatLen(hist.received) + 1, Len(all))

\* The positions of a pop between its load of head and its store of tail.
PopHasHead ==
    {"check", "copy", "store"}

\* C12: whenever the consumer holds a loaded head value h, every storage
\* index from its tail up to h already holds the byte the producer pushed
\* for that position, so a pop never copies out a slot whose write is not
\* finished.
C12_PublishedBytesVisible ==
    cons.pc \in PopHasHead =>
        /\ cons.tail = tail
        /\ PopAvailable(cons.head, cons.tail) <= Len(Unconsumed)
        /\ \A j \in 0 .. (PopAvailable(cons.head, cons.tail) - 1) :
               data[(cons.tail + j) % BUFFER_SIZE] = Unconsumed[j + 1]

\* C12 witness: the consumer holds a head value loaded while the producer
\* is in the middle of copying the next message in, across the wrap.
C12_Witness ==
    /\ cons.pc = "copy" /\ cons.i > 0
    /\ cons.head < cons.tail
    /\ prod.pc = "copy" /\ prod.i > 0
    /\ cons.head = head

\* The distance from storage index a forward to index b, modulo BUFFER_SIZE.
Ahead(a, b) ==
    (b - a) % BUFFER_SIZE

\* C13: the occupied region [tail, head) always holds the unconsumed bytes
\* intact; the index an in-flight push writes next lies outside that region,
\* and outside the indices an in-flight pop has still to copy out.
C13_PushSparesUnread ==
    /\ Len(Unconsumed) = Ahead(tail, head)
    /\ \A j \in 0 .. (Len(Unconsumed) - 1) :
           data[(tail + j) % BUFFER_SIZE] = Unconsumed[j + 1]
    /\ prod.pc = "copy" =>
           /\ Ahead(tail, PushIndex(prod.head, prod.i)) >= Ahead(tail, head)
           /\ cons.pc = "copy" =>
                  \A j \in cons.i .. (cons.len - 1) :
                      PushIndex(prod.head, prod.i) # PopIndex(cons.tail, j)

\* C13 witness: the producer writes a slot freed by an earlier pop (below
\* tail, after wrapping) while a pop is still copying out its bytes.
C13_Witness ==
    /\ prod.pc = "copy" /\ cons.pc = "copy"
    /\ cons.i < cons.len
    /\ PushIndex(prod.head, prod.i) < tail
    /\ prod.head > tail
    /\ Len(hist.received) >= 1

\* The positions of a thread inside a call of ring_push or ring_pop.
InCall == {"load_head", "load_tail", "check", "copy", "store"}

\* The most steps a call of length len takes: the two loads, the check,
\* len copies and the store.
StepBound(len) == len + 4

\* C15: a call has taken at most len + 4 of its own steps (3 + i once i
\* bytes are copied, and 3 when it has failed and its caller is about to
\* call again); and a thread inside a call always has its next step
\* enabled, whatever the other thread's position, the other thread having
\* finished or failed included.
C15_BoundedSteps ==
    /\ prod.steps <= StepBound(prod.len)
    /\ cons.steps <= StepBound(cons.len)
    /\ prod.pc \in InCall => (prod.steps < StepBound(prod.len)
                                /\ ENABLED ProducerStep)
    /\ cons.pc \in InCall => (cons.steps < StepBound(cons.len)
                                /\ ENABLED ConsumerStep)
    /\ prod.pc \in {"copy", "store"} => prod.steps = 3 + prod.i
    /\ cons.pc \in {"copy", "store"} => cons.steps = 3 + cons.i
    /\ prod.pc = "load_head" => prod.steps \in {0, 3}
    /\ cons.pc = "load_tail" => cons.steps \in {0, 3}

\* C15 witness: the producer has finished, its last push having returned
\* after all len + 4 steps, and a pop that found too few bytes has returned
\* after 3 steps although no byte will ever arrive.
C15_Witness ==
    /\ prod.pc = "done"
    /\ prod.len >= 2
    /\ prod.steps = StepBound(prod.len)
    /\ cons.pc = "load_tail"
    /\ cons.steps = 3

\* C16: head and storage change only in a step of ring_push (its copy loop
\* or its store), which leaves tail and the consumer alone; tail changes
\* only in the store of ring_pop, which leaves head, storage and the
\* producer alone; and no step of one thread writes the other's cursor.
C16_Frame ==
    [][/\ data' # data =>
             (prod.pc = "copy" /\ prod' # prod /\ cons' = cons
                 /\ head' = head /\ tail' = tail)
       /\ head' # head =>
             (prod.pc = "store" /\ prod' # prod /\ cons' = cons
                 /\ data' = data /\ tail' = tail)
       /\ tail' # tail =>
             (cons.pc = "store" /\ cons' # cons /\ prod' = prod
                 /\ data' = data /\ head' = head)
       /\ prod' # prod => (tail' = tail /\ cons' = cons)
       /\ cons' # cons => (head' = head /\ data' = data /\ prod' = prod)]_vars

\* C16 witness: a pop has just stored tail while a push is in the middle of
\* its copy on top of an earlier push.
C16_Witness ==
    /\ cons.pc = "verify"
    /\ tail > 0
    /\ prod.pc = "copy"
    /\ prod.i > 0
    /\ head > 0

\* Bytes of all successful pushes and of all successful pops so far, of the
\* single-threaded caller and of the two threads.
TotalPushed == nPushed + FlatLen(hist.sent)

TotalPopped == (nPushed - Len(fifo)) + FlatLen(hist.received)

\* C17: in every reachable state both cursors lie in 0 .. BUFFER_SIZE-1; the
\* occupied bytes (head - tail) mod BUFFER_SIZE, as the code computes them,
\* equal the bytes pushed minus the bytes popped and never exceed
\* BUFFER_SIZE-1; occupied plus free bytes are BUFFER_SIZE-1; and
\* head = tail exactly when nothing is held.
C17_CursorInvariants ==
    /\ head \in Indices
    /\ tail \in Indices
    /\ PopAvailable(head, tail) = (head - tail) % BUFFER_SIZE
    /\ PopAvailable(head, tail) = TotalPushed - TotalPopped
    /\ PopAvailable(head, tail) <= BUFFER_SIZE - 1
    /\ PopAvailable(head, tail) + PushAvailable(head, tail) = BUFFER_SIZE - 1
    /\ (head = tail) <=> (TotalPushed = TotalPopped)

\* C17 witness: the buffer holds BUFFER_SIZE-1 bytes after earlier pops,
\* with head wrapped to just below tail.
C17_Witness ==
    /\ TotalPushed - TotalPopped = BUFFER_SIZE - 1
    /\ TotalPopped > 0
    /\ head < tail
    /\ cons.pc \in InCall

\* C18: a successful push of L bytes leaves storage and head as a push of
\* the first a bytes followed by a push of the other L - a does, for every
\* split a in 0 .. L; and a successful pop of L bytes returns the bytes, and
\* leaves the tail, that a pop of k followed by a pop of L - k does, for
\* every k in 0 .. L.
C18_ByteStream ==
    [][/\ (lastOp'.kind = "push" /\ lastOp'.ret) =>
             \E L \in {lastOp'.len} :
             \E src \in {SrcBytes(nPushed, L)} :
             \A a \in 0 .. L :
               \E first \in {ring_push(data, head, tail, src, a)} :
               \E second \in {ring_push(first.data, first.head, tail,
                                        [j \in 0 .. (L - a - 1) |-> src[a + j]],
                                        L - a)} :
                  /\ first.ret /\ second.ret
                  /\ second.data = data'
                  /\ second.head = head'
                  /\ tail' = tail
       /\ (lastOp'.kind = "pop" /\ lastOp'.ret) =>
             \E L \in {lastOp'.len} :
             \A k \in 0 .. L :
               \E first \in {ring_pop(data, head, tail, ZeroDst, k)} :
               \E second \in {ring_pop(data, head, first.tail, ZeroDst, L - k)} :
                  /\ first.ret /\ second.ret
                  /\ Taken(first.dst, k) \o Taken(second.dst, L - k) =
                        Taken(dst', L)
                  /\ second.tail = tail'
                  /\ head' = head /\ data' = data]_vars

\* C18 witness: a push of at least 3 bytes has succeeded across the end of
\* storage onto bytes still held, so that its splits fall on either side of
\* index BUFFER_SIZE-1 -> 0.
C18_Witness ==
    /\ lastOp.kind = "push" /\ lastOp.ret
    /\ lastOp.len >= 3
    /\ Occupied > lastOp.len
    /\ 0 < head /\ head < lastOp.len - 1

\* C19: at every cursor pair the calls meet, the code's size_t arithmetic
\* under the mask gives the mathematical residues: free bytes
\* (tail - head - 1) mod BUFFER_SIZE and occupied bytes
\* (head - tail) mod BUFFER_SIZE, the subtraction wrapping modulo 2^w when
\* it underflows, and new cursors (cursor + len) mod BUFFER_SIZE for every
\* request length.
C19_MaskIsModulo ==
    /\ PushAvailable(head, tail) = (tail - head - 1) % BUFFER_SIZE
    /\ PopAvailable(head, tail) = (head - tail) % BUFFER_SIZE
    /\ tail - head - 1 < 0 =>
          /\ SizeT(tail - head - 1) = SIZE_MODULUS + (tail - head - 1)
          /\ PushAvailable(head, tail) = BUFFER_SIZE + (tail - head - 1)
    /\ head - tail < 0 =>
          /\ SizeT(head - tail) = SIZE_MODULUS + (head - tail)
          /\ PopAvailable(head, tail) = BUFFER_SIZE + (head - tail)
    /\ \A len \in Lengths :
          /\ PushNewHead(head, len) = (head + len) % BUFFER_SIZE
          /\ PopNewTail(tail, len) = (tail + len) % BUFFER_SIZE

\* C19 witness: a pop has computed the occupied bytes with head below tail,
\* where head - tail underflows, and has failed for lack of bytes although
\* its length fits the buffer.
C19_Witness ==
    /\ lastOp.kind = "pop" /\ ~lastOp.ret
    /\ lastOp.len <= BUFFER_SIZE - 1
    /\ head < tail
    /\ Occupied >= 2

\* The atomic queue the two-thread runs are compared with: the bytes
\* between tail and head, at most BUFFER_SIZE-1 of them.
AbsQueue == Held(data, head, tail)

\* C20: every step of every interleaving is a step of the atomic queue of
\* capacity BUFFER_SIZE-1.  The store of head appends the pushed bytes, and
\* is what the whole ring_push run at that instant would do; the store of
\* tail removes the oldest bytes, the ones the pop returns, and is what the
\* whole ring_pop run at that instant would do; every other step leaves the
\* queue as it is.  A call that fails is a failed call of the queue at its
\* load of the other thread's cursor: the check the call then makes fails
\* exactly when the queue, at the load, has too little room or too few
\* bytes.
C20_RefinesAtomicQueue ==
    [][/\ Len(AbsQueue') <= BUFFER_SIZE - 1
       /\ IF head' # head
          THEN /\ prod.pc = "store"
               /\ AbsQueue' = AbsQueue \o Taken(prod.buf, prod.len)
               /\ hist'.sent = Append(hist.sent, Taken(prod.buf, prod.len))
               /\ \E r \in {ring_push(data, head, tail, prod.buf, prod.len)} :
                     r.ret /\ r.data = data' /\ r.head = head'
          ELSE IF tail' # tail
          THEN /\ cons.pc = "store"
               /\ AbsQueue = Taken(cons.buf, cons.len) \o AbsQueue'
               /\ hist'.received =
                     Append(hist.received, Taken(cons.buf, cons.len))
               /\ \E r \in {ring_pop(data, head, tail, UninitBuf, cons.len)} :
                     /\ r.ret /\ r.tail = tail'
                     /\ Taken(r.dst, cons.len) = Taken(cons.buf, cons.len)
          ELSE /\ AbsQueue' = AbsQueue
               /\ (hist' # hist =>
                      \/ (prod.pc = "store" /\ prod.len = 0)
                      \/ (cons.pc = "store" /\ cons.len = 0))
       /\ (prod.pc = "load_tail" /\ prod' # prod) =>
             /\ prod.head = head
             /\ PushFits(prod'.head, prod'.tail, prod'.len)
                   <=> Len(AbsQueue) + prod.len <= BUFFER_SIZE - 1
       /\ (cons.pc = "load_head" /\ cons' # cons) =>
             /\ cons.tail = tail
             /\ PopFits(cons'.head, cons'.tail, cons'.len)
                   <=> cons.len <= Len(AbsQueue)
       /\ (prod.pc = "check" /\ prod' # prod) =>
             (prod'.pc \in {"copy", "store"}
                 <=> PushFits(prod.head, prod.tail, prod.len))
       /\ (cons.pc = "check" /\ cons' # cons) =>
             (cons'.pc \in {"copy", "store"}
                 <=> PopFits(cons.head, cons.tail, cons.len))]_vars

\* C20 witness: a push has just failed although the queue has room for it
\* by now: the queue was too full when the push loaded tail, and a pop took
\* effect between that load and the check.
C20_Witness ==
    /\ prod.pc = "load_head"
    /\ prod.steps = 3
    /\ Len(AbsQueue) + prod.len <= BUFFER_SIZE - 1
    /\ Len(hist.received) >= 1
    /\ cons.pc = "verify"

\* The bytes pushed and not yet popped, counted from the calls that have
\* taken effect, and the room left for more.
TrueOccupied == FlatLen(hist.sent) - FlatLen(hist.received)

TrueFree == (BUFFER_SIZE - 1) - TrueOccupied

\* The positions of a call at which both cursors are loaded.
Loaded == {"check", "copy", "store"}

\* C21: from its two loads to its return, the free bytes a push computes
\* from the cursors it loaded never exceed the true free bytes, and the
\* occupied bytes a pop computes never exceed the true occupied bytes; so a
\* push past its check has room for its bytes and a pop past its check has
\* its bytes, however stale the other thread's cursor has become.
C21_StaleIsConservative ==
    /\ prod.pc \in Loaded =>
          /\ prod.head = head
          /\ PushAvailable(prod.head, prod.tail) <= TrueFree
          /\ prod.pc \in {"copy", "store"} => prod.len <= TrueFree
    /\ cons.pc \in Loaded =>
          /\ cons.tail = tail
          /\ PopAvailable(cons.head, cons.tail) <= TrueOccupied
          /\ cons.pc \in {"copy", "store"} => cons.len <= TrueOccupied

\* C21 witness: a push is at its check with a tail that a pop has since
\* moved on; the free bytes it computed are too few for it although the
\* true free bytes are enough.
C21_Witness ==
    /\ prod.pc = "check"
    /\ prod.tail # tail
    /\ ~PushFits(prod.head, prod.tail, prod.len)
    /\ prod.len <= TrueFree
    /\ PushAvailable(prod.head, prod.tail) < TrueFree

\* C22: a push fails only if the true free bytes were fewer than its length
\* at the instant it loaded tail, and a pop fails only if the true occupied
\* bytes were fewer than its length at the instant it loaded head.  At the
\* load of the other thread's cursor, the loaded pair not fitting implies the
\* true shortage in that very state; the loaded pair stays as it is until
\* the check; and the check fails only when the loaded pair does not fit.
C22_FailsOnlyWithoutRoom ==
    [][/\ (prod.pc = "load_tail" /\ prod'.pc = "check") =>
             /\ prod'.tail = tail /\ prod'.head = head
             /\ ~PushFits(prod'.head, prod'.tail, prod'.len)
                   => TrueFree < prod'.len
       /\ (prod.pc = "check" /\ prod'.pc = "check") =>
             <<prod'.head, prod'.tail, prod'.len>> =
                <<prod.head, prod.tail, prod.len>>
       /\ (prod.pc = "check" /\ prod'.pc \notin Loaded) =>
             ~PushFits(prod.head, prod.tail, prod.len)
       /\ (cons.pc = "load_head" /\ cons'.pc = "check") =>
             /\ cons'.head = head /\ cons'.tail = tail
             /\ ~PopFits(cons'.head, cons'.tail, cons'.len)
                   => TrueOccupied < cons'.len
       /\ (cons.pc = "check" /\ cons'.pc = "check") =>
             <<cons'.head, cons'.tail, cons'.len>> =
                <<cons.head, cons.tail, cons.len>>
       /\ (cons.pc = "check" /\ cons'.pc \notin Loaded) =>
             ~PopFits(cons.head, cons.tail, cons.len)]_vars

\* C22 witness: a pop has just failed although its bytes are there by now:
\* they were not when it loaded head, and a push took effect between that
\* load and the check.
C22_Witness ==
    /\ cons.pc = "load_tail"
    /\ cons.steps = 3
    /\ cons.len <= TrueOccupied
    /\ cons.head # head
    /\ prod.pc \in {"next", "load_head", "done"}

\* Whether both push(L) and pop(L) must fail with occ bytes held.
BothStuck(occ, L) == (BUFFER_SIZE - 1) - L < occ /\ occ < L

\* C23: in every state and for every length L, the call of length L just
\* made and the opposite call of length L made instead from the same state
\* both fail exactly when the occupied bytes lie strictly between
\* BUFFER_SIZE-1-L and L; for 1 <= L <= BUFFER_SIZE/2 there is no such
\* count, so at least one of push(L) and pop(L) succeeds.
C23_OneSideProceeds ==
    [][/\ lastOp'.kind = "push" =>
             \E L \in {lastOp'.len} :
             \E pop \in {ring_pop(data, head, tail, ZeroDst, L)} :
                /\ (~lastOp'.ret /\ ~pop.ret) <=> BothStuck(Occupied, L)
                /\ (1 <= L /\ L <= BUFFER_SIZE \div 2) =>
                      (lastOp'.ret \/ pop.ret)
       /\ lastOp'.kind = "pop" =>
             \E L \in {lastOp'.len} :
             \E push \in {ring_push(data, head, tail,
                                    SrcBytes(nPushed, L), L)} :
                /\ (~lastOp'.ret /\ ~push.ret) <=> BothStuck(Occupied, L)
                /\ (1 <= L /\ L <= BUFFER_SIZE \div 2) =>
                      (lastOp'.ret \/ push.ret)]_vars

\* C23 witness: a push of BUFFER_SIZE/2 bytes has failed with exactly
\* BUFFER_SIZE/2 bytes held, one more than leaves it room and just enough
\* for the pop of that length, tail being past index 0.
C23_Witness ==
    /\ lastOp.kind = "push" /\ ~lastOp.ret
    /\ lastOp.len = BUFFER_SIZE \div 2
    /\ Occupied = BUFFER_SIZE \div 2
    /\ tail > 0

====
